---------------------------- MODULE Spec2Model ----------------------------
(***************************************************************************)
(* A model of pagmo::problem::tsp_cs (src/src/problem/tsp_cs.cpp): the     *)
(* constructor with check_weights, find_city_subsequence (the two-pointer  *)
(* search over a cyclic tour) and compute_constraints_impl for the FULL    *)
(* and CITIES encodings.                                                   *)
(*                                                                         *)
(* C++ vectors are 0-indexed: a vector of size n is a function on 0..n-1.  *)
(* Doubles are modelled by integers (every quantity the search handles is  *)
(* a sum or difference of the inputs); the constructor's matrix entries    *)
(* are records so that NaN is a value of its own.                          *)
(***************************************************************************)
EXTENDS Integers, Sequences, FiniteSets

VARIABLES
    pc,                 \* which call is running and where it stands
    n_cities,           \* base_tsp::get_n_cities()
    m_weights,          \* tsp_cs::m_weights
    m_values,           \* tsp_cs::m_values
    m_max_path_length,  \* tsp_cs::m_max_path_length
    m_min_value,        \* tsp_cs::m_min_value
    tour,               \* find_city_subsequence: the argument tour
    loc,                \* find_city_subsequence: locals and out-parameters
    weights,            \* constructor: the argument weights
    values,             \* constructor: the argument values
    err,                \* the message of the value_error thrown, "" when none
    encoding,           \* base_tsp::get_encoding()
    x,                  \* compute_constraints_impl: the chromosome
    c                   \* compute_constraints_impl: the constraint vector

vars == <<pc, n_cities, m_weights, m_values, m_max_path_length, m_min_value,
          tour, loc, weights, values, err, encoding, x, c>>

-----------------------------------------------------------------------------
(* Bounds of the model *)

MaxCities == 3      \* find_city_subsequence: number of cities
MaxWeight == 2      \* find_city_subsequence: largest edge weight
MaxNegVal == 1      \* find_city_subsequence: size of the most negative city value
MaxVal == 2         \* find_city_subsequence: largest city value
MaxBudget == 3      \* find_city_subsequence: largest max_path_length

CityValues == -MaxNegVal .. MaxVal

-----------------------------------------------------------------------------
(* Helpers *)

Size(v) == Cardinality(DOMAIN v)

\* The vectors of size n over S
Vectors(n, S) == [0 .. n-1 -> S]

RECURSIVE SumTo(_, _)
\* f(0) + ... + f(k-1)
SumTo(f, k) == IF k <= 0 THEN 0 ELSE SumTo(f, k-1) + f[k-1]

-----------------------------------------------------------------------------
(* find_city_subsequence *)

\* lines 189-200: the locals and the out-parameters at the first loop test
InitLocals(T, W, V, L) ==
    [ it_l |-> 0, it_r |-> 0, cond_r |-> TRUE, cond_l |-> TRUE,
      cum_p |-> V[T[0]], saved_length |-> L,
      retval_p |-> V[T[0]], retval_l |-> L,
      retval_it_l |-> 0, retval_it_r |-> 0 ]

\* lines 220-223, 229-232, 253-256, 262-265: the current path becomes the best
Record(s, n) ==
    [s EXCEPT !.retval_p = s.cum_p, !.retval_l = s.saved_length,
              !.retval_it_l = s.it_l % n, !.retval_it_r = s.it_r % n]

\* lines 218-234 and 251-267: better value, or equal value and more length saved
Compare(s, n) ==
    IF s.cum_p > s.retval_p THEN Record(s, n)
    ELSE IF s.cum_p = s.retval_p /\ s.saved_length > s.retval_l THEN Record(s, n)
    ELSE s

\* lines 209-211: the right pointer advances
AdvanceRight(s, T, W, V, n) ==
    [s EXCEPT !.saved_length = s.saved_length - W[<<T[s.it_r % n], T[(s.it_r + 1) % n]>>],
              !.cum_p = s.cum_p + V[(s.it_r + 1) % n],
              !.it_r = s.it_r + 1]

\* A slip in line 214: the test that the path has wrapped around is left out
ExtendRightNoWrap(s, T, W, V, n) ==
    LET a == AdvanceRight(s, T, W, V, n) IN
    IF a.saved_length < 0
    THEN [a EXCEPT !.cond_r = FALSE]
    ELSE Compare(a, n)

\* lines 206-235: one iteration of the inner loop
ExtendRight(s, T, W, V, n) ==
    LET a == AdvanceRight(s, T, W, V, n) IN
    IF a.saved_length < 0 \/ (a.it_l % n = a.it_r % n)
    THEN [a EXCEPT !.cond_r = FALSE]
    ELSE Compare(a, n)

\* line 237: all cities are included in the current path
AllIncluded(s, n) == s.it_l % n = s.it_r % n

\* lines 244-246: the left pointer advances
AdvanceLeft(s, T, W, V, n) ==
    [s EXCEPT !.saved_length = s.saved_length + W[<<T[s.it_l % n], T[(s.it_l + 1) % n]>>],
              !.cum_p = s.cum_p - V[s.it_l],
              !.it_l = s.it_l + 1]

\* line 248: the shrunken path counts as valid
ValidAfterShrink(s) == s.saved_length > 0

\* lines 243-272: the else branch of the outer loop
ShrinkLeft(s, T, W, V, n) ==
    LET a == AdvanceLeft(s, T, W, V, n)
        b == IF ValidAfterShrink(a) THEN Compare([a EXCEPT !.cond_r = TRUE], n) ELSE a
    IN  IF b.it_l = n THEN [b EXCEPT !.cond_l = FALSE] ELSE b

\* lines 204-274: one step of the double loop, taken while cond_l holds
LoopStep(s, T, W, V, n) ==
    IF s.cond_r THEN ExtendRight(s, T, W, V, n)
    ELSE IF AllIncluded(s, n) THEN [s EXCEPT !.cond_l = FALSE]
    ELSE ShrinkLeft(s, T, W, V, n)

RECURSIVE RunLoop(_, _, _, _, _)
\* lines 204-274: the double loop, run to its end
RunLoop(s, T, W, V, n) ==
    IF s.cond_l THEN RunLoop(LoopStep(s, T, W, V, n), T, W, V, n) ELSE s

\* lines 182-275 for a tour of the right size: the out-parameters on return
find_city_subsequence(T, W, V, L, n) == RunLoop(InitLocals(T, W, V, L), T, W, V, n)

\* The inputs of the search
PermutationTours(n) == {t \in Vectors(n, 0 .. n-1) : \A i, j \in 0 .. n-1 : t[i] = t[j] => i = j}
Tours(n) == PermutationTours(n) \cup Vectors(n - 1, 0 .. n-1)
WeightMatrices(n) ==
    {w \in [(0 .. n-1) \X (0 .. n-1) -> 0 .. MaxWeight] :
        \A i, j \in 0 .. n-1 : (w[<<i, j>>] = 0) <=> (i = j)}

NoLocals == [cond_l |-> FALSE]

InitSearch ==
    /\ pc = "call"
    /\ n_cities \in 1 .. MaxCities
    /\ m_weights \in WeightMatrices(n_cities)
    /\ m_values \in Vectors(n_cities, CityValues)
    /\ m_max_path_length \in 0 .. MaxBudget
    /\ tour \in Tours(n_cities)
    /\ loc = NoLocals
    /\ err = ""
    /\ m_min_value = 0 /\ weights = <<>> /\ values = <<>>
    /\ encoding = "CITIES" /\ x = <<>> /\ c = <<>>

\* lines 184-200
Begin ==
    /\ pc = "call"
    /\ IF Size(tour) # n_cities
       THEN /\ pc' = "thrown"
            /\ err' = "tour dimension must be equal to the city number"
            /\ loc' = loc
       ELSE /\ pc' = "loop"
            /\ err' = err
            /\ loc' = InitLocals(tour, m_weights, m_values, m_max_path_length)
    /\ UNCHANGED <<n_cities, m_weights, m_values, m_max_path_length, m_min_value,
                   tour, weights, values, encoding, x, c>>

Advance(next) ==
    /\ loc' = next
    /\ pc' = IF next.cond_l THEN "loop" ELSE "done"
    /\ UNCHANGED <<n_cities, m_weights, m_values, m_max_path_length, m_min_value,
                   tour, weights, values, err, encoding, x, c>>

\* lines 206-235
Extend ==
    /\ pc = "loop" /\ loc.cond_r
    /\ Advance(ExtendRight(loc, tour, m_weights, m_values, n_cities))

\* lines 237-240
Leave ==
    /\ pc = "loop" /\ ~loc.cond_r /\ AllIncluded(loc, n_cities)
    /\ Advance([loc EXCEPT !.cond_l = FALSE])

\* lines 241-273
Shrink ==
    /\ pc = "loop" /\ ~loc.cond_r /\ ~AllIncluded(loc, n_cities)
    /\ Advance(ShrinkLeft(loc, tour, m_weights, m_values, n_cities))

Next == Begin \/ Extend \/ Leave \/ Shrink

Spec == InitSearch /\ [][Next]_vars

-----------------------------------------------------------------------------
(* What the claims about find_city_subsequence speak of: the contiguous    *)
(* cyclic windows of the tour, defined from the statement, not the code.   *)

\* The window of k consecutive tour positions starting at position l
WindowValue(l, k) == SumTo([i \in 0 .. k-1 |-> m_values[tour[(l + i) % n_cities]]], k)
WindowLength(l, k) ==
    SumTo([i \in 0 .. k-2 |->
             m_weights[<<tour[(l + i) % n_cities], tour[(l + i + 1) % n_cities]>>]], k - 1)
Windows == (0 .. n_cities-1) \X (1 .. n_cities)
FeasibleWindows == {w \in Windows : WindowLength(w[1], w[2]) <= m_max_path_length}
BestWindowValue ==
    CHOOSE v \in {WindowValue(w[1], w[2]) : w \in FeasibleWindows} :
        \A w \in FeasibleWindows : WindowValue(w[1], w[2]) <= v

\* The returned window: the inclusive cyclic run from retval_it_l to retval_it_r
ReturnedStart == loc.retval_it_l
ReturnedCount == ((loc.retval_it_r - loc.retval_it_l + n_cities) % n_cities) + 1

IsPermutationTour == tour \in PermutationTours(n_cities)
Returned == pc = "done" /\ IsPermutationTour
PositiveValues == \A i \in 0 .. n_cities-1 : m_values[i] > 0
CycleLength == WindowLength(0, n_cities) + m_weights[<<tour[n_cities-1], tour[0]>>]

\* C1: the value returned by find_city_subsequence is the largest value of a
\* contiguous cyclic window of the tour whose length is within max_path_length.
C1_Optimal == Returned => loc.retval_p = BestWindowValue

\* C2: when the whole cycle (closing edge included) fits max_path_length, the
\* returned window covers all n tour positions and the returned value is the sum
\* of all city values.  Stated for the instances whose city values are all
\* strictly positive, where the full cover is the most valuable window.
C2_FullCover ==
    (Returned /\ PositiveValues /\ CycleLength <= m_max_path_length) =>
        /\ ReturnedCount = n_cities
        /\ loc.retval_p = SumTo(m_values, n_cities)

\* C3: the value returned with a budget L1 <= max_path_length never exceeds the
\* value returned with max_path_length.
C3_Monotone ==
    Returned =>
        \A L1 \in 0 .. m_max_path_length :
            find_city_subsequence(tour, m_weights, m_values, L1, n_cities).retval_p
                <= loc.retval_p

\* C6: the returned remaining budget is the largest remaining budget among the
\* feasible windows whose value equals the returned value.
C6_TieBreak ==
    Returned =>
        \A w \in FeasibleWindows :
            WindowValue(w[1], w[2]) = loc.retval_p =>
                m_max_path_length - WindowLength(w[1], w[2]) <= loc.retval_l

\* C9: the returned value is the sum of values[tour[p]] over the positions p of
\* the returned window, and the returned remaining budget is max_path_length
\* minus the length of that window.
C9_Consistent ==
    Returned =>
        /\ loc.retval_p = WindowValue(ReturnedStart, ReturnedCount)
        /\ loc.retval_l = m_max_path_length - WindowLength(ReturnedStart, ReturnedCount)

\* C10: a left shrink that leaves a non-negative remaining budget (zero
\* included) compares the shrunken window with the best and re-enables the
\* right extension.
C10_ShrinkReopens ==
    [][ (pc = "loop" /\ ~loc.cond_r /\ ~AllIncluded(loc, n_cities)
            /\ loc'.saved_length >= 0)
        => (loc'.cond_r /\ (loc'.retval_p >= loc'.cum_p)) ]_vars

-----------------------------------------------------------------------------
(* Termination of find_city_subsequence: any tour of the right size with   *)
(* entries in [0, n), weights of either sign, a budget of either sign.     *)

MaxTermCities == 3  \* termination: largest number of cities
MaxTermBudget == 2  \* termination: largest max_path_length

\* Edge weights of either sign; zero only on the diagonal
TermWeights == {-1, 1, 2}
\* The weight of an edge is that of the city it leaves, so that along a
\* permutation tour every edge has a weight of its own
TermWeightMatrices(n) ==
    {[p \in (0 .. n-1) \X (0 .. n-1) |-> IF p[1] = p[2] THEN 0 ELSE r[p[1]]] :
        r \in Vectors(n, TermWeights)}
\* The values only decide which path is recorded
TermValues(n) == {[i \in 0 .. n-1 |-> i * v] : v \in {-1, 1}}

InitTermination ==
    /\ pc = "call"
    /\ n_cities \in 1 .. MaxTermCities
    /\ m_weights \in TermWeightMatrices(n_cities)
    /\ m_values \in TermValues(n_cities)
    /\ m_max_path_length \in -1 .. MaxTermBudget
    /\ tour \in Vectors(n_cities, 0 .. n_cities-1) \cup Vectors(n_cities - 1, 0 .. n_cities-1)
    /\ loc = NoLocals
    /\ err = ""
    /\ m_min_value = 0 /\ weights = <<>> /\ values = <<>>
    /\ encoding = "CITIES" /\ x = <<>> /\ c = <<>>

\* The loop is sequential code: a step that can be taken is taken
SpecTermination == InitTermination /\ [][Next]_vars /\ WF_vars(Next)

InLoop == pc \in {"loop", "done"}

\* C11: find_city_subsequence terminates; the left pointer only increases and
\* never exceeds n; the right pointer only increases, never falls behind the
\* left pointer and advances at most 2n times.
C11_TerminatesMonotone ==
    /\ <>(pc \in {"done", "thrown"})
    /\ [](InLoop => /\ loc.it_l <= n_cities
                    /\ loc.it_l <= loc.it_r
                    /\ loc.it_r <= 2 * n_cities)
    /\ [][(pc = "loop") => /\ loc'.it_l >= loc.it_l
                           /\ loc'.it_r >= loc.it_r]_vars

\* C11 happens: a run on a tour that is no permutation ended with the left
\* pointer at n and the right pointer past n.
C11_Witness ==
    /\ pc = "done"
    /\ tour \notin PermutationTours(n_cities)
    /\ loc.it_l = n_cities
    /\ loc.it_r > n_cities

-----------------------------------------------------------------------------
(* The constructor and check_weights *)

MaxDim == 2         \* constructor: largest matrix size and row length

\* A double: a number, or NaN
Dbl(v) == [nan |-> FALSE, val |-> v]
NaN == [nan |-> TRUE, val |-> 0]

\* a != b on doubles: true when either is NaN
DblNe(a, b) == a.nan \/ b.nan \/ a.val # b.val
\* a == b on doubles: false when either is NaN
DblEq(a, b) == ~a.nan /\ ~b.nan /\ a.val = b.val
\* !a on a double: a converts to true unless it compares equal to zero
DblNot(a) == ~DblNe(a, Dbl(0))
\* a bool converted to double
BoolToDbl(b) == Dbl(IF b THEN 1 ELSE 0)

\* lines 101-106: the checks on the cell (i, j), "" when all pass
CheckCell(i, j, e) ==
    IF i = j /\ DblNe(e, Dbl(0)) THEN "main diagonal elements must all be zeros."
    ELSE IF i # j /\ DblNot(e) THEN "adjacency matrix contains zero values."
    ELSE IF i # j /\ DblEq(BoolToDbl(DblNot(e)), e) THEN "adjacency matrix contains NaN values."
    ELSE ""

RECURSIVE CheckRow(_, _, _)
\* lines 100-107: the cells j, j+1, ... of row i
CheckRow(m, i, j) ==
    IF j >= Size(m[i]) THEN ""
    ELSE IF CheckCell(i, j, m[i][j]) # "" THEN CheckCell(i, j, m[i][j])
    ELSE CheckRow(m, i, j + 1)

RECURSIVE CheckRows(_, _)
\* lines 94-108: the rows i, i+1, ...
CheckRows(m, i) ==
    IF i >= Size(m) THEN ""
    ELSE IF Size(m[i]) # Size(m) THEN "adjacency matrix is not square"
    ELSE IF CheckRow(m, i, 0) # "" THEN CheckRow(m, i, 0)
    ELSE CheckRows(m, i + 1)

\* lines 90-109: the message check_weights throws, "" when it returns
check_weights(m) == CheckRows(m, 0)

\* std::min(a, b) on two iterators into one vector, as positions: b if b < a, else a
StdMin(a, b) == IF b < a THEN b ELSE a

\* line 73: *std::min(m_values.begin(), m_values.end())
MinValueOf(v) == v[StdMin(0, Size(v))]

Entries == {Dbl(0), Dbl(1), NaN}
Rows == UNION {Vectors(k, Entries) : k \in 1 .. MaxDim}
Matrices == UNION {Vectors(k, Rows) : k \in 1 .. MaxDim}
ValueVectors == UNION {Vectors(k, CityValues) : k \in 1 .. MaxDim}

InitConstruct ==
    /\ pc = "new"
    /\ weights \in Matrices
    /\ values \in ValueVectors
    /\ encoding \in {"FULL", "RANDOMKEYS", "CITIES"}
    /\ err = ""
    /\ n_cities = 0 /\ m_weights = <<>> /\ m_values = <<>>
    /\ m_max_path_length = 1 /\ m_min_value = 0
    /\ tour = <<>> /\ loc = NoLocals /\ x = <<>> /\ c = <<>>

\* lines 61-74: the constructor throws, and no object is left
ConstructThrows ==
    /\ pc = "new"
    /\ \/ /\ check_weights(weights) # ""
          /\ err' = check_weights(weights)
       \/ /\ check_weights(weights) = ""
          /\ Size(weights) # Size(values)
          /\ err' = "Size of weight matrix and values vector must be equal"
    /\ pc' = "thrown"
    /\ UNCHANGED <<n_cities, m_weights, m_values, m_max_path_length, m_min_value,
                   tour, loc, weights, values, encoding, x, c>>

\* lines 61-74: the constructor returns
ConstructReturns ==
    /\ pc = "new"
    /\ check_weights(weights) = ""
    /\ Size(weights) = Size(values)
    /\ pc' = "constructed"
    /\ n_cities' = Size(weights)
    /\ m_weights' = weights
    /\ m_values' = values
    /\ m_min_value' = MinValueOf(values)
    /\ UNCHANGED <<m_max_path_length, tour, loc, weights, values, err, encoding, x, c>>

NextConstruct == ConstructThrows \/ ConstructReturns

SpecConstruct == InitConstruct /\ [][NextConstruct]_vars

\* What the statement calls a legal weight matrix
IsSquare(m) == \A i \in DOMAIN m : Size(m[i]) = Size(m)
LegalMatrix(m) ==
    /\ IsSquare(m)
    /\ \A i \in DOMAIN m : \A j \in DOMAIN m[i] :
          IF i = j THEN m[i][j] = Dbl(0)
          ELSE m[i][j] # Dbl(0) /\ m[i][j] # NaN
HasNaNOffDiagonal(m) == \E i \in DOMAIN m : \E j \in DOMAIN m[i] : i # j /\ m[i][j] = NaN

Checked == pc \in {"constructed", "thrown"}

\* C4: check_weights returns without raising exactly when the matrix is square,
\* its diagonal is zero and every off-diagonal entry is non-zero and not NaN.
C4_ValidationExact == Checked => ((check_weights(weights) = "") <=> LegalMatrix(weights))

\* C5: after a successful construction the cached m_min_value is the minimum
\* element of the value vector, wherever that minimum stands.
C5_MinValueCached ==
    pc = "constructed" =>
        /\ \E i \in DOMAIN m_values : m_values[i] = m_min_value
        /\ \A i \in DOMAIN m_values : m_min_value <= m_values[i]

-----------------------------------------------------------------------------
(* compute_constraints_impl *)

MaxCitiesFull == 4  \* FULL encoding: largest number of cities
MaxSelected == 5    \* FULL encoding: largest number of arc variables set to 1
MaxCitiesPerm == 4  \* CITIES encoding: largest number of cities

\* lines 161-165
compute_idx(i, j, n) == i * (n - 1) + j - (IF j > i THEN 1 ELSE 0)

\* lines 286-298: the equality constraints c[i] and c[i + n] of city i
OutDegree(X, i, n) ==
    SumTo([j \in 0 .. n-1 |-> IF i = j THEN 0 ELSE X[compute_idx(i, j, n)]], n) - 1
InDegree(X, i, n) ==
    SumTo([j \in 0 .. n-1 |-> IF i = j THEN 0 ELSE X[compute_idx(j, i, n)]], n) - 1

RECURSIVE FirstSelected(_, _, _, _, _)
\* lines 307-315: next_city after the scan of j, j+1, ... from current_city
FirstSelected(X, current_city, next_city, j, n) ==
    IF j >= n THEN next_city
    ELSE IF current_city = j THEN FirstSelected(X, current_city, next_city, j + 1, n)
    ELSE IF X[compute_idx(current_city, j, n)] = 1 THEN j
    ELSE FirstSelected(X, current_city, next_city, j + 1, n)

RECURSIVE WalkFrom(_, _, _, _, _, _)
\* lines 305-317: the iterations i, i+1, ... of the walk that numbers the cities
WalkFrom(X, u, current_city, next_city, i, n) ==
    IF i >= n THEN u
    ELSE LET nxt == FirstSelected(X, current_city, next_city, 0, n)
         IN  WalkFrom(X, [u EXCEPT ![current_city] = i + 1], nxt, nxt, i + 1, n)

\* lines 303-317: u, zero-initialised, after the walk from city 0
Ranks(X, n) == WalkFrom(X, [i \in 0 .. n-1 |-> 0], 0, 0, 0, n)

\* A slip in line 323: the arc variable weighted by n instead of n + 1
SubtourConstraintByN(X, u, i, j, n) == u[i] - u[j] + n * X[compute_idx(i, j, n)] - n

\* line 323: the inequality constraint of the ordered pair (i, j)
SubtourConstraint(X, u, i, j, n) == u[i] - u[j] + (n + 1) * X[compute_idx(i, j, n)] - n

\* lines 318-326: the pair (i, j) the inequality constraint number count is about
PairOf(count, n) ==
    CHOOSE p \in (1 .. n-1) \X (1 .. n-1) :
        /\ p[1] # p[2]
        /\ count = (p[1] - 1) * (n - 2) + (p[2] - 1) - (IF p[2] > p[1] THEN 1 ELSE 0)

\* lines 283-328: the constraint vector of the FULL encoding
FullConstraints(X, n) ==
    LET u == Ranks(X, n) IN
    [k \in 0 .. 2*n + (n-1)*(n-2) - 1 |->
        IF k < n THEN OutDegree(X, k, n)
        ELSE IF k < 2*n THEN InDegree(X, k - n, n)
        ELSE LET p == PairOf(k - 2*n, n) IN SubtourConstraint(X, u, p[1], p[2], n)]

\* Occurrences of e among v[from], ..., v[n-1]
Count(v, e, from, n) == Cardinality({i \in from .. n-1 : v[i] = e})

\* A slip in line 338: every element of the chromosome is merely looked up in range
is_subset_of_range(v, r, n) == \A i \in 0 .. n-1 : Count(r, v[i], 0, n) >= 1

\* std::is_permutation(first1, last1, first2): the common prefix is skipped,
\* then every element of the rest occurs as often in the one as in the other
is_permutation(v, r, n) ==
    LET Mismatch == {i \in 0 .. n-1 : v[i] # r[i]}
        k == IF Mismatch = {} THEN n
             ELSE CHOOSE i \in Mismatch : \A j \in Mismatch : i <= j
    IN  \A i \in k .. n-1 : Count(r, v[i], k, n) = Count(v, v[i], k, n)

\* lines 331-340: the constraint vector of the CITIES encoding
CitiesConstraints(X, n) ==
    LET range == [i \in 0 .. n-1 |-> i]
    IN  [k \in {0} |-> IF is_permutation(X, range, n) THEN 0 ELSE 1]

\* The arc of the flat offset k, and the 0/1 chromosomes that select the arcs A
Arcs(n) == {a \in (0 .. n-1) \X (0 .. n-1) : a[1] # a[2]}
Selection(A, n) ==
    [k \in 0 .. n*(n-1) - 1 |->
        IF \E a \in A : compute_idx(a[1], a[2], n) = k THEN 1 ELSE 0]

InitConstraints ==
    /\ pc = "call"
    /\ encoding \in {"FULL", "RANDOMKEYS", "CITIES"}
    /\ \/ /\ encoding = "FULL"
          /\ n_cities \in 3 .. MaxCitiesFull
          /\ \E A \in SUBSET Arcs(n_cities) :
                /\ Cardinality(A) <= MaxSelected
                /\ x = Selection(A, n_cities)
       \/ /\ encoding = "RANDOMKEYS"
          /\ n_cities \in 1 .. MaxCitiesPerm
          /\ x \in Vectors(n_cities, 0 .. 1)
       \/ /\ encoding = "CITIES"
          /\ n_cities \in 1 .. MaxCitiesPerm
          /\ x \in Vectors(n_cities, 0 .. n_cities)
    /\ c = <<>>
    /\ err = ""
    /\ m_weights = <<>> /\ m_values = <<>> /\ m_max_path_length = 1 /\ m_min_value = 0
    /\ tour = <<>> /\ loc = NoLocals /\ weights = <<>> /\ values = <<>>

Computed(result) ==
    /\ pc' = "computed"
    /\ c' = result
    /\ UNCHANGED <<n_cities, m_weights, m_values, m_max_path_length, m_min_value,
                   tour, loc, weights, values, err, encoding, x>>

\* lines 283-328
ComputeFull ==
    /\ pc = "call" /\ encoding = "FULL"
    /\ Computed(FullConstraints(x, n_cities))

\* lines 329-330
ComputeRandomKeys ==
    /\ pc = "call" /\ encoding = "RANDOMKEYS"
    /\ Computed(c)

\* lines 331-340
ComputeCities ==
    /\ pc = "call" /\ encoding = "CITIES"
    /\ Computed(CitiesConstraints(x, n_cities))

NextConstraints == ComputeFull \/ ComputeRandomKeys \/ ComputeCities

SpecConstraints == InitConstraints /\ [][NextConstraints]_vars

\* The selected arcs, and what it is for them to be one Hamiltonian cycle:
\* n arcs, one out of every city, and the walk along them from city 0 passes
\* through every city and comes back to city 0.
SelectedArcs == {a \in Arcs(n_cities) : x[compute_idx(a[1], a[2], n_cities)] = 1}
Successors(i) == {j \in 0 .. n_cities-1 : <<i, j>> \in SelectedArcs}
RECURSIVE Visit(_, _)
Visit(i, k) == IF k = 0 THEN i ELSE CHOOSE j \in Successors(Visit(i, k - 1)) : TRUE
IsCycleCover ==
    \A i \in 0 .. n_cities-1 :
        /\ Cardinality(Successors(i)) = 1
        /\ Cardinality({j \in 0 .. n_cities-1 : <<j, i>> \in SelectedArcs}) = 1
IsHamiltonianCycle ==
    /\ Cardinality(SelectedArcs) = n_cities
    /\ \A i \in 0 .. n_cities-1 : Cardinality(Successors(i)) = 1
    /\ {Visit(0, k) : k \in 0 .. n_cities-1} = 0 .. n_cities-1
    /\ Visit(0, n_cities) = 0

DegreeConstraintsHold == \A k \in 0 .. 2*n_cities - 1 : c[k] = 0
SubtourConstraintsHold == \A k \in DOMAIN c : k >= 2*n_cities => c[k] <= 0

\* C7: on a 0/1 arc selection the degree constraints are all 0 and the subtour
\* constraints all <= 0 exactly when the selected arcs are one Hamiltonian cycle.
C7_FullFeasibleIffHamiltonian ==
    (pc = "computed" /\ encoding = "FULL") =>
        ((DegreeConstraintsHold /\ SubtourConstraintsHold) <=> IsHamiltonianCycle)

\* C7 happens: the constraints of a cycle cover with a sub-cycle that avoids
\* city 0 were computed, and one subtour constraint is positive.
C7_Witness ==
    /\ pc = "computed" /\ encoding = "FULL"
    /\ IsCycleCover /\ ~IsHamiltonianCycle
    /\ DegreeConstraintsHold /\ ~SubtourConstraintsHold

\* Each city index occurs exactly once in the chromosome
IsPermutationOfRange ==
    \A k \in 0 .. n_cities-1 : Cardinality({i \in 0 .. n_cities-1 : x[i] = k}) = 1

\* C8: the single CITIES constraint is 0 when the chromosome is a permutation of
\* 0 .. n-1 and 1 otherwise.
C8_PermutationCheck ==
    (pc = "computed" /\ encoding = "CITIES") =>
        /\ c[0] \in {0, 1}
        /\ (c[0] = 0) <=> IsPermutationOfRange

\* C8 happens: a chromosome with a repeated city was given the constraint 1.
C8_Witness ==
    /\ pc = "computed" /\ encoding = "CITIES"
    /\ n_cities = 3 /\ x = [i \in 0 .. 2 |-> IF i = 1 THEN 0 ELSE i]
    /\ c[0] = 1

=============================================================================
